---- MODULE Spec2Model ----
\* Watermark tool (brinsec/watermark-tool): the video pipeline
\* (core/video_processor.py), the worker thread that drives it and the batch
\* handler of the video window (ui/video_window.py).
\*
\* Spec       one ProcessThread at a time running VideoProcessor.process_video,
\*            step by step, with ProcessThread.cancel() arriving at any moment;
\*            runs repeat, the scratch directory lives on between them.
\* SpecBatch  VideoWindow.process_video: the GUI thread's batch loop, the
\*            worker threads it starts and the queued finished signals.
EXTENDS Integers, Sequences, FiniteSets, TLC

\* ---------------------------------------------------------------- bounds
VLabelW == 12         \* width of the VideoPreviewLabel
VLabelH == 12         \* height of the VideoPreviewLabel
PreviewMax == 12      \* longest side of a preview frame (max_size)
MaxScale == 2         \* longest side of a video frame, in units of PreviewMax
MaxRate == 60         \* numerator of the highest source frame rate
MaxRateDen == 2       \* largest denominator of a source frame rate
MaxDigits == 7        \* most decimal digits of a frame index
DetW == 14            \* width of the image handed to the detector
DetH == 12            \* height of that image
MaxBox == 7           \* longest side of a contour's bounding rectangle
MaxContours == 2      \* most contours cv2.findContours returns
LabelW == 3       \* width of the ImageLabel, in pixels
LabelH == 2       \* height of the ImageLabel
MaxSide == 5      \* longest side of an image shown in the label
MaxFiles == 3     \* most entries of MainWindow.selected_files
MaxRadius == 3    \* largest inpaint radius tried (the spin box goes on to 10)
MaxFrameW == 3    \* width of the widest frame handed to process_frame
MaxFrameH == 2    \* height of the tallest one
MaxFrames == 2    \* most frames a source can deliver to cap.read()
MaxMeta == 2      \* largest CAP_PROP_FRAME_COUNT a source reports
NumSources == 3   \* most entries of VideoWindow.video_files

\* ------------------------------------------------------- values, sources
NoPath == [none |-> TRUE]            \* VideoProcessor.video_path is None
NoRegion == "None"                   \* VideoProcessor.watermark_region is None

\* A video file as cv2.VideoCapture sees it: whether it opens, the frame
\* count its metadata reports and the number of frames read() delivers
\* before it first returns ret = False.
Sources ==
    {[openable |-> FALSE, meta |-> 0, frames |-> 0]} \cup
    [openable : {TRUE}, meta : 0..MaxMeta, frames : 0..MaxFrames]

\* ------------------------------------------------------------- variables
VARIABLES
    video_path,         \* VideoProcessor.video_path
    cap,                \* VideoProcessor.cap: the source behind the capture
    loadResult,         \* what the last load_video returned, "none" before
    got,                \* the last get_frame / get_preview_frame since the
                        \* last run and the value it returned
    watermark_region,   \* VideoProcessor.watermark_region
    pc,                 \* position of the worker thread in run()/process_video
    opened,             \* the source behind the local cap of process_video
    total_frames,       \* local total_frames
    current_frame,      \* local current_frame
    dirExists,          \* temp_dir exists on disk
    files,              \* indices k of the files frame_%06d.jpg in temp_dir
    is_canceled,        \* ProcessThread._is_canceled
    pending,            \* value on its way out through the finally blocks
    result,             \* what process_video gave its caller
    finishedSig,        \* argument of ProcessThread.finished, "none" if not emitted
    progressLog,        \* progress values handed to progress_callback, in order
    decoded,            \* frames cap.read() has delivered in this call
    stills,             \* cv2.imwrite calls of this call
    madeDir,            \* os.makedirs of this call succeeded
    muxDone,            \* "no", "ok" or "fail": ffmpeg.run of this call
    cause,              \* why this call ended
    stopAt,             \* number of the callback call that returned False, 0 if none
    cancelInLoop,       \* cancel() arrived while the call was in its frame loop
    writesAfterCancel,  \* imwrite calls since cancel()
    callsAfterCancel,   \* callback calls since cancel()
    previous            \* cause and result of the call before this one

VARIABLES
    nFiles,             \* len(VideoWindow.video_files)
    mpc,                \* position of the GUI thread in VideoWindow.process_video
    idx,                \* position of the for loop in video_files (1-based)
    wasCanceled,        \* progress_dialog.wasCanceled()
    b_video_path,       \* video_path of the shared VideoProcessor (0 = None)
    process_thread,     \* VideoWindow.process_thread (0 = None)
    current_video,      \* the closure variable current_video
    buttonsEnabled,     \* process/preview/detect buttons and the video list
    thr,                \* the ProcessThread created for each list entry
    queue,              \* finished signals queued for the GUI thread
    loaded,             \* list entries handed to load_video
    loadFailed,         \* list entries for which load_video returned False
    raised              \* an exception took the handler out of its for loop

VARIABLES
    ip_region,          \* ImageProcessor.watermark_region
    ip_method,          \* ImageProcessor.method
    ip_radius,          \* ImageProcessor.inpaint_radius
    last,               \* the last ImageProcessor call: arguments and outcome
    pf,                 \* what the last MainWindow.process_files did
    current_image,      \* MainWindow.current_image
    image_buttons       \* which of the three image-mode buttons are enabled

VARIABLES
    original_size,      \* ImageLabel.original_size
    scale_factor,       \* ImageLabel.scale_factor, the fraction n/d
    pixmap,             \* size of ImageLabel.pixmap()
    selection,          \* ImageLabel.selection
    start_pos,          \* ImageLabel.start_pos
    scaled_rect,        \* what get_scaled_rect last returned to preview_removal
    detected            \* the region detect_watermark last mapped to the label

VARIABLES
    frame_size,         \* VideoProcessor.width and .height
    preview_pixmap,     \* size of VideoPreviewLabel.pixmap()
    preview_selection,  \* VideoPreviewLabel.selection
    region_rect,        \* VideoProcessor.watermark_region, with its numbers
    preview_button,     \* preview_button and process_button are enabled
    applied,            \* the last region process_frame used, and on what frame
    detection           \* how the last VideoWindow.detect_watermark ended

VARIABLES
    contours,           \* what cv2.findContours returned for the image
    auto_region         \* what auto_detect_watermark returned for them

VARIABLES
    named               \* two frame indices of a run and their file names

VARIABLES
    rate_source,        \* the source load_video last read, with its frame rate
    fps,                \* VideoProcessor.fps
    mux                 \* the last ffmpeg invocation of process_video

VARIABLES
    settings,           \* VideoProcessor.watermark_region, .method, .inpaint_radius
    job,                \* the run in flight: its source and place in the list
    used,               \* the settings process_frame read, frame by frame
    signals,            \* progress_updated values queued for the GUI thread
    dialog_shown        \* the modal progress dialog is on screen

VARIABLES
    shot                \* the last call of process_frame: what went in and out

runVars ==
    <<video_path, cap, loadResult, got, watermark_region, pc, opened, total_frames, current_frame,
      dirExists, files, is_canceled, pending, result, finishedSig,
      progressLog, decoded, stills, madeDir, muxDone, cause, stopAt,
      cancelInLoop, writesAfterCancel, callsAfterCancel, previous>>

batchVars ==
    <<nFiles, mpc, idx, wasCanceled, b_video_path, process_thread,
      current_video, buttonsEnabled, thr, queue, loaded, loadFailed,
      raised>>

imageVars ==
    <<ip_region, ip_method, ip_radius, last, pf, current_image, image_buttons>>

labelVars ==
    <<original_size, scale_factor, pixmap, selection, start_pos, scaled_rect,
      detected>>

previewVars ==
    <<frame_size, preview_pixmap, preview_selection, region_rect,
      preview_button, applied, detection>>

detectVars == <<contours, auto_region>>

nameVars == <<named>>

muxVars == <<rate_source, fps, mux>>

settingsVars == <<settings, job, used, signals, dialog_shown>>

frameVars == <<shot>>

vars ==
    <<runVars, batchVars, imageVars, labelVars, previewVars, detectVars,
      nameVars, muxVars, settingsVars, frameVars>>

\* what a step of one specification leaves alone
notRun ==
    <<batchVars, imageVars, labelVars, previewVars, detectVars,
      nameVars, muxVars, settingsVars, frameVars>>
notBatch ==
    <<runVars, imageVars, labelVars, previewVars, detectVars,
      nameVars, muxVars, settingsVars, frameVars>>
notImage ==
    <<runVars, batchVars, labelVars, previewVars, detectVars,
      nameVars, muxVars, settingsVars, frameVars>>
notLabel ==
    <<runVars, batchVars, imageVars, previewVars, detectVars,
      nameVars, muxVars, settingsVars, frameVars>>
notPreview ==
    <<runVars, batchVars, imageVars, labelVars, detectVars,
      nameVars, muxVars, settingsVars, frameVars>>
notName ==
    <<runVars, batchVars, imageVars, labelVars, previewVars, detectVars,
      muxVars, settingsVars, frameVars>>
notMux ==
    <<runVars, batchVars, imageVars, labelVars, previewVars, detectVars,
      nameVars, settingsVars, frameVars>>
notDetect ==
    <<runVars, batchVars, imageVars, labelVars, previewVars,
      nameVars, muxVars, settingsVars, frameVars>>
notSettings ==
    <<runVars, batchVars, imageVars, labelVars, previewVars, detectVars,
      nameVars, muxVars, frameVars>>
notFrame ==
    <<runVars, batchVars, imageVars, labelVars, previewVars, detectVars,
      nameVars, muxVars, settingsVars>>

\* ============================== ImageProcessor and MainWindow.process_files

DefaultRadius == 3

Methods == {"telea", "ns"}

\* A file as the image code sees it: whether FileHandler.is_image accepts its
\* extension, whether PIL can decode it, whether the output can be saved.
\* Only these differences are kept: a file the image code is never handed,
\* or one it cannot decode, has no output to save.
Files ==
    {f \in [image : BOOLEAN, readable : BOOLEAN, writable : BOOLEAN] :
        /\ ~f.image => f.readable /\ f.writable
        /\ ~f.readable => ~f.writable}
ImageFiles == {f \in Files : f.image}

NoFile == [none |-> TRUE]

\* the result of a call: how it ended, whether read_image was reached,
\* whether an output file was written, and the algorithm flag and radius
\* handed to cv2.inpaint ("none", 0 when it was not reached)
Outcome(o, rd, wr, al, ra) ==
    [outcome |-> o, read |-> rd, wrote |-> wr, algo |-> al, radius |-> ra]

\* line 63: the flag remove_watermark hands to cv2.inpaint
RemoveAlgo(method) == "telea"

\* lines 161-164: the flag preview_removal hands to cv2.inpaint
PreviewAlgo(method) == IF method = "telea" THEN "telea" ELSE "ns"

\* ImageProcessor.remove_watermark, lines 46-66
RemoveWatermarkMut(region, method, radius, f) ==
    IF ~f.readable
       THEN Outcome("ValueError: cannot read", TRUE, FALSE, "none", 0)
    ELSE IF region = NoRegion
       THEN Outcome("ValueError: no region", TRUE, FALSE, "none", 0)
    ELSE IF ~f.writable
       THEN Outcome("ValueError: cannot save", TRUE, FALSE,
                    RemoveAlgo(method), radius)
    ELSE Outcome("ok", TRUE, TRUE, RemoveAlgo(method), radius)
RemoveWatermark(region, method, radius, f) ==
    IF region = NoRegion
       THEN Outcome("ValueError: no region", FALSE, FALSE, "none", 0)
    ELSE IF ~f.readable
       THEN Outcome("ValueError: cannot read", TRUE, FALSE, "none", 0)
    ELSE IF ~f.writable
       THEN Outcome("ValueError: cannot save", TRUE, FALSE,
                    RemoveAlgo(method), radius)
    ELSE Outcome("ok", TRUE, TRUE, RemoveAlgo(method), radius)

\* ImageProcessor.preview_removal, lines 147-166: read_image returns None
\* for a file it cannot decode, and line 156 then reads image.shape
PreviewRemoval(region, method, radius, f) ==
    IF region = NoRegion
       THEN Outcome("ValueError: no region", FALSE, FALSE, "none", 0)
    ELSE IF ~f.readable
       THEN Outcome("AttributeError", TRUE, FALSE, "none", 0)
    ELSE Outcome("ok", TRUE, FALSE, PreviewAlgo(method), radius)

\* ImageProcessor.auto_detect_watermark, lines 68-73 and its two ways out:
\* None (lines 95, 108) or a region (lines 133, 145)
AutoDetect(f, found) ==
    IF ~f.readable
       THEN Outcome("ValueError: cannot read", TRUE, FALSE, "none", 0)
    ELSE IF found THEN Outcome("region", TRUE, FALSE, "none", 0)
    ELSE Outcome("None", TRUE, FALSE, "none", 0)

\* a call with the configuration it found
CallWith(op, f, region, method, radius, res) ==
    [op |-> op, file |-> f, region |-> region, method |-> method,
     config_radius |-> radius, res |-> res]

Call(op, f, res) == CallWith(op, f, ip_region, ip_method, ip_radius, res)

NoCall ==
    [op |-> "none", file |-> NoFile, region |-> NoRegion, method |-> "telea",
     config_radius |-> DefaultRadius,
     res |-> Outcome("none", FALSE, FALSE, "none", 0)]

NoBatch ==
    [ran |-> FALSE, files |-> <<>>, attempted |-> {}, count |-> 0,
     total |-> 0, report |-> [kind |-> "none"]]

\* detect_button, preview_button, process_button: isEnabled()
Buttons(det, pre, pro) == [detect |-> det, preview |-> pre, process |-> pro]

windowVars == <<current_image, image_buttons>>

InitImage ==
    /\ ip_region = NoRegion
    /\ ip_method = "telea"
    /\ ip_radius = DefaultRadius
    /\ last = NoCall
    /\ pf = NoBatch
    /\ current_image = NoFile
    /\ image_buttons = Buttons(FALSE, FALSE, FALSE)

\* the window once MainWindow.load_image (lines 372-386) has shown an image:
\* the three buttons are enabled, nothing else has happened
InitImageLoaded ==
    /\ ip_region = NoRegion
    /\ ip_method = "telea"
    /\ ip_radius = DefaultRadius
    /\ last = NoCall
    /\ pf = NoBatch
    /\ current_image = [image |-> TRUE, readable |-> TRUE, writable |-> TRUE]
    /\ image_buttons = Buttons(TRUE, TRUE, TRUE)

\* ImageProcessor.set_watermark_region
IP_SetRegion ==
    /\ ip_region' = "region"
    /\ UNCHANGED <<ip_method, ip_radius, last, pf, windowVars>>
    /\ UNCHANGED notImage

\* MainWindow.preview_removal, lines 450-477, as update_method and
\* update_radius call it with the new configuration: with a selection on the
\* label, get_scaled_rect gives the region and the current image is previewed
MW_Preview(method, radius) ==
    \E hasSelection \in BOOLEAN, f \in ImageFiles :
        IF hasSelection
           THEN /\ ip_region' = "region"
                /\ last' = CallWith("preview_removal", f, "region", method,
                                    radius,
                                    PreviewRemoval("region", method, radius, f))
                /\ pf' = NoBatch
           ELSE UNCHANGED <<ip_region, last, pf>>

\* MainWindow.update_method, lines 388-392
IP_SetMethod ==
    /\ \E m \in Methods :
          /\ ip_method' = m
          /\ MW_Preview(m, ip_radius)
    /\ UNCHANGED <<ip_radius, windowVars>>
    /\ UNCHANGED notImage

\* MainWindow.update_radius, lines 394-398
IP_SetRadius ==
    /\ \E r \in 1..MaxRadius :
          /\ ip_radius' = r
          /\ MW_Preview(ip_method, r)
    /\ UNCHANGED <<ip_method, windowVars>>
    /\ UNCHANGED notImage

Record(c) ==
    /\ last' = c
    /\ pf' = NoBatch
    /\ UNCHANGED <<ip_region, ip_method, ip_radius, windowVars>>
    /\ UNCHANGED notImage

IP_Remove ==
    \E f \in ImageFiles :
        Record(Call("remove_watermark", f,
                    RemoveWatermark(ip_region, ip_method, ip_radius, f)))

IP_Preview ==
    \E f \in ImageFiles :
        Record(Call("preview_removal", f,
                    PreviewRemoval(ip_region, ip_method, ip_radius, f)))

IP_Detect ==
    \E f \in ImageFiles, found \in BOOLEAN :
        Record(Call("auto_detect_watermark", f, AutoDetect(f, found)))

\* MainWindow.process_files, the loop of lines 508-526 from entry i on; acc
\* holds the entries handed to remove_watermark, processed_count and
\* whether output_dir was set
RECURSIVE PF_Loop(_, _, _)
RECURSIVE PF_OnError(_, _, _)
PF_OnErrorMut(sel, i, acc) == acc
PF_OnError(sel, i, acc) == PF_Loop(sel, i + 1, acc)

PF_Loop(sel, i, acc) ==
    IF i > Len(sel) THEN acc
    ELSE IF ~sel[i].image THEN PF_Loop(sel, i + 1, acc)
    ELSE LET r == RemoveWatermark(ip_region', ip_method, ip_radius, sel[i])
             tried == [acc EXCEPT !.attempted = @ \cup {i},
                                  !.output_dir = TRUE]
         IN  IF r.outcome = "ok"
                THEN PF_Loop(sel, i + 1, [tried EXCEPT !.count = @ + 1])
                ELSE PF_OnError(sel, i, tried)

\* lines 529-543: the status line at the end
PF_Report(acc, total_files) ==
    IF acc.output_dir /\ acc.count > 0
       THEN [kind |-> "counts", succeeded |-> acc.count, total |-> total_files]
       ELSE [kind |-> "nothing processed"]

\* MainWindow.process_files, from the process button, on a list of selected
\* files; hasSelection says whether the label holds a selection
\* (get_scaled_rect then yields a region)
ProcessFiles ==
    /\ image_buttons.process
    /\ \E n \in 0..MaxFiles :
        \E sel \in [1..n -> Files], hasSelection \in BOOLEAN :
        IF n = 0 \/ ~hasSelection
           THEN /\ pf' = NoBatch
                /\ UNCHANGED <<ip_region, ip_method, ip_radius, last,
                               windowVars>>
                /\ UNCHANGED notImage
           ELSE /\ ip_region' = "region"
                /\ image_buttons' = Buttons(TRUE, TRUE, TRUE)
                /\ UNCHANGED current_image
                /\ LET acc == PF_Loop(sel, 1, [attempted |-> {}, count |-> 0,
                                               output_dir |-> FALSE])
                   IN  pf' = [ran |-> TRUE, files |-> sel,
                              attempted |-> acc.attempted,
                              count |-> acc.count,
                              total |-> Len(sel),
                              report |-> PF_Report(acc, Len(sel))]
                /\ last' = NoCall
                /\ UNCHANGED <<ip_method, ip_radius>>
                /\ UNCHANGED notImage

\* MainWindow.load_image, lines 372-386: set_image keeps its own errors in,
\* so the three buttons are enabled whatever the file is
MW_LoadImage ==
    /\ \E f \in ImageFiles : current_image' = f
    /\ image_buttons' = Buttons(TRUE, TRUE, TRUE)
    /\ UNCHANGED <<ip_region, ip_method, ip_radius, last, pf>>
    /\ UNCHANGED notImage

\* what lines 408-448 leave of the buttons, by what auto_detect_watermark
\* did: with a region lines 437-438 enable preview and process again; the
\* else branch, the handler of line 445 and the finally clause enable the
\* detect button only
AfterDetect(outcome) ==
    IF outcome = "region" THEN Buttons(TRUE, TRUE, TRUE)
    ELSE Buttons(TRUE, FALSE, FALSE)

\* MainWindow.detect_watermark, lines 400-448, from the detect button; a
\* region found is put on the label and previewed (line 441)
MW_DetectWatermark ==
    /\ current_image # NoFile
    /\ image_buttons.detect
    /\ \E found \in BOOLEAN :
          LET res == AutoDetect(current_image, found)
          IN  /\ image_buttons' = AfterDetect(res.outcome)
              /\ IF res.outcome = "region"
                    THEN /\ ip_region' = "region"
                         /\ last' = CallWith("preview_removal", current_image,
                                       "region", ip_method, ip_radius,
                                       PreviewRemoval("region", ip_method,
                                                      ip_radius, current_image))
                    ELSE /\ last' = Call("auto_detect_watermark",
                                         current_image, res)
                         /\ UNCHANGED ip_region
    /\ pf' = NoBatch
    /\ UNCHANGED <<ip_method, ip_radius, current_image>>
    /\ UNCHANGED notImage

\* ========================================== ImageLabel, image mode geometry

NoRect == [none |-> TRUE]
NoPoint == [none |-> TRUE]

Rect(x, y, w, h) == [x |-> x, y |-> y, w |-> w, h |-> h]

Min(a, b) == IF a <= b THEN a ELSE b
Max(a, b) == IF a >= b THEN a ELSE b

\* Python's int() of the fraction n/d, d > 0: rounds toward zero
Trunc(n, d) == IF n >= 0 THEN n \div d ELSE -((-n) \div d)

\* bool(QRect) is not isNull(): a rectangle of width 0 and height 0 is false
Truthy(r) == r # NoRect /\ ~(r.w = 0 /\ r.h = 0)

\* QRect(p, q).normalized(): corners are inclusive, crossed corners are swapped
NormSpan(a, b) == IF b < a THEN [at |-> b + 1, len |-> a - b - 1]
                           ELSE [at |-> a, len |-> b - a + 1]
Normalized(p, q) ==
    LET h == NormSpan(p.x, q.x)
        v == NormSpan(p.y, q.y)
    IN  Rect(h.at, v.at, h.len, v.len)

\* where the mouse can be while the button is down: on the label or one
\* pixel outside it
Points == [x : -1..LabelW, y : -1..LabelH]

AllSizes == [w : 1..MaxSide, h : 1..MaxSide]

\* ImageLabel.scale_image, lines 69-72: min(width_ratio, height_ratio)
ScaleFactor(size) ==
    IF LabelW * size.h <= LabelH * size.w
       THEN [n |-> LabelW, d |-> size.w]
       ELSE [n |-> LabelH, d |-> size.h]

\* ImageLabel.scale_image, lines 74-77
NewSize(size) ==
    LET sf == ScaleFactor(size)
    IN  [w |-> Trunc(size.w * sf.n, sf.d), h |-> Trunc(size.h * sf.n, sf.d)]

\* ImageLabel.get_pixmap_rect: centred, Python's // rounds down
PixmapRect(pix) ==
    Rect((LabelW - pix.w) \div 2, (LabelH - pix.h) \div 2, pix.w, pix.h)

\* lines 137-138: max(0, min(v, limit)), on numerators over scale_factor.n
ClampMut(v, limit) == v
Clamp(v, limit) == Max(0, Min(v, limit))

\* ImageLabel.get_scaled_rect, lines 120-142; x, y, w, h are kept as
\* numerators over the denominator scale_factor.n
GetScaledRect(sel, pix, sf, size) ==
    IF ~Truthy(sel) \/ pix = NoRect THEN NoRect
    ELSE LET pr == PixmapRect(pix)
             x == Clamp((sel.x - pr.x) * sf.d, size.w * sf.n)
             y == Clamp((sel.y - pr.y) * sf.d, size.h * sf.n)
             w == Min(sel.w * sf.d, size.w * sf.n - x)
             h == Min(sel.h * sf.d, size.h * sf.n - y)
         IN  Rect(Trunc(x, sf.n), Trunc(y, sf.n), Trunc(w, sf.n), Trunc(h, sf.n))

\* MainWindow.detect_watermark, lines 417-432: a native region on the label
ToDisplay(r, pix, size) ==
    LET pr == PixmapRect(pix)
    IN  Rect(Trunc(r.x * pr.w, size.w) + pr.x, Trunc(r.y * pr.h, size.h) + pr.y,
             Trunc(r.w * pr.w, size.w), Trunc(r.h * pr.h, size.h))

\* the images the label can show: scaled to the label, no side falls to 0
\* pixels (image.resize of line 79 raises on such a size)
Sizes == {size \in AllSizes : NewSize(size).w > 0 /\ NewSize(size).h > 0}

\* the regions auto_detect_watermark can return for an image of this size
\* (lines 127-131: padded, then cut to the image)
RegionsIn(size) ==
    {r \in [x : 0..(size.w - 1), y : 0..(size.h - 1),
            w : 1..size.w, h : 1..size.h] :
        r.x + r.w <= size.w /\ r.y + r.h <= size.h}

InitLabel ==
    /\ original_size = NoRect
    /\ scale_factor = [n |-> 1, d |-> 1]
    /\ pixmap = NoRect
    /\ selection = NoRect
    /\ start_pos = NoPoint
    /\ scaled_rect = NoRect
    /\ detected = NoRect

\* ImageLabel.set_image, lines 26-45
SetImage ==
    \E size \in Sizes :
        /\ original_size' = size
        /\ scale_factor' = ScaleFactor(size)
        /\ pixmap' = NewSize(size)
        /\ selection' = NoRect
        /\ scaled_rect' = NoRect
        /\ detected' = NoRect
        /\ UNCHANGED start_pos
        /\ UNCHANGED notLabel

\* ImageLabel.mousePressEvent; what was observed of the selection it
\* clears is forgotten with it
MousePress ==
    /\ pixmap # NoRect
    /\ \E p \in Points : start_pos' = p
    /\ selection' = NoRect
    /\ scaled_rect' = NoRect
    /\ detected' = NoRect
    /\ UNCHANGED <<original_size, scale_factor, pixmap>>
    /\ UNCHANGED notLabel

\* ImageLabel.mouseMoveEvent
MouseMove ==
    /\ pixmap # NoRect
    /\ start_pos # NoPoint
    /\ \E p \in Points : selection' = Normalized(start_pos, p)
    /\ UNCHANGED <<original_size, scale_factor, pixmap, start_pos, scaled_rect,
                   detected>>
    /\ UNCHANGED notLabel

\* ImageLabel.mouseReleaseEvent
MouseRelease ==
    /\ pixmap # NoRect
    /\ start_pos # NoPoint
    /\ \E p \in Points : selection' = Normalized(start_pos, p)
    /\ start_pos' = NoPoint
    /\ UNCHANGED <<original_size, scale_factor, pixmap, scaled_rect, detected>>
    /\ UNCHANGED notLabel

\* MainWindow.preview_removal, lines 450-477, from a selection sel: the
\* result of preview_removal is shown at the image's own size (line 474)
ShowPreview(sel) ==
    LET r == GetScaledRect(sel, pixmap, scale_factor, original_size)
    IN  /\ scaled_rect' = r
        /\ pixmap' = IF Truthy(sel) /\ Truthy(r)
                        THEN [w |-> original_size.w, h |-> original_size.h]
                        ELSE pixmap

\* the preview button, out of reach while the label holds the mouse
PreviewRemovalClicked ==
    /\ original_size # NoRect
    /\ start_pos = NoPoint
    /\ ShowPreview(selection)
    /\ UNCHANGED <<original_size, scale_factor, selection, start_pos, detected>>
    /\ UNCHANGED notLabel

\* MainWindow.detect_watermark, lines 400-448, when auto_detect_watermark
\* returns the region r
DetectWatermark ==
    /\ original_size # NoRect
    /\ start_pos = NoPoint
    /\ \E r \in RegionsIn(original_size) :
          /\ selection' = ToDisplay(r, pixmap, original_size)
          /\ detected' = [r |-> r, pixmap |-> pixmap]
          /\ ShowPreview(selection')
    /\ UNCHANGED <<original_size, scale_factor, start_pos>>
    /\ UNCHANGED notLabel

\* ==================================== VideoPreviewLabel, video mode geometry

\* on_selection_changed, line 505
MinSelection == 10

\* where the mouse is pressed and released: the corners of the label
VPoints == [x : {0, VLabelW}, y : {0, VLabelH}]

\* the sources: landscape or square frames, sides in units of PreviewMax
FrameSides == {k * PreviewMax : k \in 1..MaxScale}
FrameSizes == {size \in [w : FrameSides, h : FrameSides] : size.h <= size.w}

\* VideoProcessor.get_preview_frame, lines 65-70: a frame with a side over
\* max_size is scaled by min(max_size/w, max_size/h)
PreviewSize(size) ==
    IF size.w <= PreviewMax /\ size.h <= PreviewMax THEN size
    ELSE IF size.h <= size.w
       THEN [w |-> Trunc(size.w * PreviewMax, size.w),
             h |-> Trunc(size.h * PreviewMax, size.w)]
       ELSE [w |-> Trunc(size.w * PreviewMax, size.h),
             h |-> Trunc(size.h * PreviewMax, size.h)]

\* VideoPreviewLabel.get_pixmap_rect
VPixmapRect(pix) ==
    Rect((VLabelW - pix.w) \div 2, (VLabelH - pix.h) \div 2, pix.w, pix.h)

\* VideoWindow.preview_removal, lines 473-479: the selection in the
\* coordinates of the source
ToNative(sel, pix, size) ==
    LET pr == VPixmapRect(pix)
    IN  Rect(Trunc((sel.x - pr.x) * size.w, pr.w),
             Trunc((sel.y - pr.y) * size.h, pr.h),
             Trunc(sel.w * size.w, pr.w),
             Trunc(sel.h * size.h, pr.h))

NoDetection == [readable |-> FALSE, status |-> "none"]

\* the methods class VideoProcessor defines
VideoProcessorMethods ==
    {"__init__", "load_video", "get_frame", "get_preview_frame",
     "set_watermark_region", "process_frame", "process_frame_batch",
     "process_video"}

InitPreviewLabel ==
    /\ frame_size = NoRect
    /\ preview_pixmap = NoRect
    /\ preview_selection = NoRect
    /\ region_rect = NoRect
    /\ preview_button = FALSE
    /\ applied = NoRect
    /\ detection = NoDetection

\* VideoWindow.load_video, lines 363-372, on a source that opens:
\* VideoProcessor.load_video, then update_frame shows its first frame
V_LoadVideo ==
    /\ \E size \in FrameSizes :
          /\ frame_size' = size
          /\ preview_pixmap' = PreviewSize(size)
    /\ preview_selection' = NoRect
    /\ applied' = NoRect
    /\ detection' = NoDetection
    /\ UNCHANGED <<region_rect, preview_button>>
    /\ UNCHANGED notPreview

\* VideoWindow.preview_removal, lines 460-501, on the selection sel: the
\* region is set, the current frame is processed with it and set_frame
\* shows the result at the size of the pixmap and clears the selection
V_Preview(sel) ==
    IF ~Truthy(sel)
       THEN /\ preview_selection' = sel
            /\ UNCHANGED <<region_rect, applied, preview_button>>
       ELSE /\ region_rect' = ToNative(sel, preview_pixmap, frame_size)
            /\ applied' = [region |-> region_rect', frame |-> frame_size]
            /\ preview_selection' = NoRect
            /\ preview_button' = TRUE

\* One drag on the label: mousePressEvent at p (lines 46-51), then, the
\* label holding the mouse in between, mouseReleaseEvent at q (lines 59-67)
\* and the slot of its signal, on_selection_changed (lines 503-509)
V_Drag ==
    /\ preview_pixmap # NoRect
    /\ \E p \in VPoints, q \in VPoints :
          LET sel == Normalized(p, q)
          IN  IF sel.w > 0 /\ sel.h > 0
                 /\ sel.w > MinSelection /\ sel.h > MinSelection
                 THEN V_Preview(sel)
                 ELSE /\ preview_selection' = sel
                      /\ applied' = NoRect
                      /\ UNCHANGED <<region_rect, preview_button>>
    /\ detection' = NoDetection
    /\ UNCHANGED <<frame_size, preview_pixmap>>
    /\ UNCHANGED notPreview

\* the preview button
V_PreviewClicked ==
    /\ preview_button
    /\ V_Preview(preview_selection)
    /\ UNCHANGED <<frame_size, preview_pixmap, detection>>
    /\ UNCHANGED notPreview

\* VideoWindow.process_video, lines 545-566, for one source of the batch:
\* VideoProcessor.load_video replaces width and height, the region stays,
\* and process_video hands every frame of the source to process_frame; the
\* label is not touched
V_ProcessSource ==
    /\ preview_button
    /\ region_rect # NoRect
    /\ \E size \in FrameSizes :
          /\ frame_size' = size
          /\ applied' = [region |-> region_rect, frame |-> size]
    /\ UNCHANGED <<preview_pixmap, preview_selection, region_rect,
                   preview_button, detection>>
    /\ UNCHANGED notPreview

\* what a detector of VideoProcessor would return is not in the code; the
\* whole frame stands for it
VRegionsIn(size) == {Rect(0, 0, size.w, size.h)}

\* VideoWindow.detect_watermark, lines 416-458, on a loaded source; readable
\* says whether get_frame returns the current frame. Line 434 calls
\* self.video_processor.detect_watermark, an attribute VideoProcessor does
\* not define: the AttributeError is caught at line 454. Lines 425-426
\* disable the preview and process buttons and the finally clause re-enables
\* the detect button only.
V_Detect ==
    /\ frame_size # NoRect
    /\ \E readable \in BOOLEAN :
          IF ~readable \/ "detect_watermark" \notin VideoProcessorMethods
             THEN /\ detection' = [readable |-> readable, status |-> "failed"]
                  /\ preview_button' = FALSE
                  /\ UNCHANGED <<preview_selection, region_rect, applied>>
             ELSE \E found \in BOOLEAN, r \in VRegionsIn(frame_size) :
                     IF found
                        THEN /\ detection' = [readable |-> TRUE,
                                              status |-> "detected"]
                             /\ V_Preview(r)
                        ELSE /\ detection' = [readable |-> TRUE,
                                              status |-> "no region"]
                             /\ preview_button' = FALSE
                             /\ UNCHANGED <<preview_selection, region_rect,
                                            applied>>
    /\ UNCHANGED <<frame_size, preview_pixmap>>
    /\ UNCHANGED notPreview

\* ================================ ImageProcessor.auto_detect_watermark, inside

\* line 126 (and 139)
Padding == 5

\* where bounding rectangles start along a side of the given length: at the
\* edge, nearer to it than the padding, and so that the longest ends at the
\* far edge
BoxStarts(side) == {0, Padding - 3, side - MaxBox}

BoxSides == {1, 3, MaxBox}

\* A contour: its cv2.boundingRect and twice its cv2.contourArea (areas of
\* pixel polygons are multiples of one half). The polygon runs through pixel
\* centres, so a rectangle of w x h pixels encloses at most (w-1)(h-1).
Contours ==
    {c \in [x : BoxStarts(DetW), y : BoxStarts(DetH), w : BoxSides,
            h : BoxSides, area2 : 0..(2 * MaxBox * MaxBox)] :
        /\ c.x + c.w <= DetW
        /\ c.y + c.h <= DetH
        /\ c.area2 \in {(c.w - 1) * (c.h - 1), 2 * (c.w - 1) * (c.h - 1)}}

\* lines 99-104: min_area < area < max_area with min_area = 0.001 * H * W
\* and max_area = 0.2 * H * W
ValidAreaMut(c) == 1000 * c.area2 > 2 * DetH * DetW
ValidArea(c) ==
    /\ 1000 * c.area2 > 2 * DetH * DetW
    /\ 5 * c.area2 < 2 * DetH * DetW

\* lines 98-105: the indices of the contours kept, in order
ValidContours(cs) ==
    SelectSeq([i \in 1..Len(cs) |-> i], LAMBDA i : ValidArea(cs[i]))

\* lines 115-120: score = solidity * (1 - abs(0.5 - center_y / H)) with
\* solidity = area / (w * h) and center_y = y + h / 2, as the fraction
\* n / d with d > 0
Abs(n) == IF n >= 0 THEN n ELSE -n
Score(c) ==
    IF c.w * c.h = 0 THEN [n |-> 0, d |-> 1]
    ELSE [n |-> c.area2 * (2 * DetH - Abs(DetH - (2 * c.y + c.h))),
          d |-> 4 * c.w * c.h * DetH]

Less(p, q) == p.n * q.d < q.n * p.d

\* line 123: max(contour_features, key=...) keeps the first of the highest
RECURSIVE BestFrom(_, _, _, _)
BestFrom(cs, valid, k, best) ==
    IF k > Len(valid) THEN best
    ELSE IF Less(Score(cs[best]), Score(cs[valid[k]]))
            THEN BestFrom(cs, valid, k + 1, valid[k])
            ELSE BestFrom(cs, valid, k + 1, best)

BestMut(cs, valid) == valid[Len(valid)]
Best(cs, valid) == BestFrom(cs, valid, 2, valid[1])

\* lines 125-131 and 138-143: the bounding rectangle with the padding
Padded(c) ==
    LET x == Max(0, c.x - Padding)
        y == Max(0, c.y - Padding)
    IN  Rect(x, y, Min(DetW - x, c.w + 2 * Padding),
             Min(DetH - y, c.h + 2 * Padding))

\* lines 94-145
AutoDetectWatermark(cs) ==
    LET valid == ValidContours(cs)
    IN  IF cs = <<>> \/ valid = <<>>
           THEN [status |-> "None", of |-> cs]
        ELSE LET winner == IF Len(valid) > 1 THEN Best(cs, valid) ELSE valid[1]
             IN  [status |-> "region", of |-> cs, winner |-> winner,
                  region |-> Padded(cs[winner])]

NotDetected == [status |-> "not called"]

InitContours ==
    /\ contours = <<>>
    /\ auto_region = NotDetected

\* cv2.findContours, line 90: one more contour in what it returns
FindContour ==
    /\ Len(contours) < MaxContours
    /\ \E c \in Contours : contours' = Append(contours, c)
    /\ auto_region' = NotDetected
    /\ UNCHANGED notDetect

\* another image: the list starts again
NewImage ==
    /\ contours # <<>>
    /\ contours' = <<>>
    /\ auto_region' = NotDetected
    /\ UNCHANGED notDetect

\* ImageProcessor.auto_detect_watermark from line 94 on
Detect ==
    /\ auto_region = NotDetected
    /\ auto_region' = AutoDetectWatermark(contours)
    /\ UNCHANGED contours
    /\ UNCHANGED notDetect

\* ============================================= names of the scratch files

\* "frame_{current_frame:06d}.jpg", line 151 (and 116): the least width
PadWidth == 6

RECURSIVE Pow10(_)
Pow10(k) == IF k = 0 THEN 1 ELSE 10 * Pow10(k - 1)

\* frame indices at and next to each change of the number of digits
Indices ==
    UNION {{Pow10(k) - 1, Pow10(k), Pow10(k) + 1} : k \in 0..(MaxDigits - 1)}

\* the decimal digits of n, as character codes
RECURSIVE Decimal(_)
Decimal(n) ==
    IF n < 10 THEN <<48 + n>> ELSE Append(Decimal(n \div 10), 48 + (n % 10))

\* format specification 06d: zeros in front up to the width, never cut
RECURSIVE ZeroPad(_, _)
ZeroPad(ds, width) ==
    IF Len(ds) < width THEN ZeroPad(<<48>> \o ds, width) ELSE ds

\* the characters of "frame_" and ".jpg"
FramePrefix == <<102, 114, 97, 109, 101, 95>>
FrameSuffix == <<46, 106, 112, 103>>

\* line 151
FrameName(n) == FramePrefix \o ZeroPad(Decimal(n), PadWidth) \o FrameSuffix

\* a sorts strictly before b, character by character
RECURSIVE LexLess(_, _)
LexLess(a, b) ==
    IF b = <<>> THEN FALSE
    ELSE IF a = <<>> THEN TRUE
    ELSE IF Head(a) # Head(b) THEN Head(a) < Head(b)
    ELSE LexLess(Tail(a), Tail(b))

NotNamed == [none |-> TRUE]

InitNames == named = NotNamed

\* the loop of lines 142-155 at two of its rounds, i before j
NameFrames ==
    /\ \E i \in Indices, j \in Indices :
          /\ i < j
          /\ named' = [i |-> i, j |-> j, name_i |-> FrameName(i),
                       name_j |-> FrameName(j)]
    /\ UNCHANGED notName

\* ===================================== the frame rate and the mux invocation

\* Sources by name and frame rate, the rate as the fraction n/d frames per
\* second (cv2.CAP_PROP_FPS is a float: 29.97 is 2997/100)
RateSources ==
    [name : {"a.mp4", "b.mp4"}, n : 1..MaxRate, d : 1..MaxRateDen]

NoMux == [none |-> TRUE]

InitRate ==
    /\ rate_source = NoPath
    /\ fps = 0
    /\ mux = NoMux

\* line 31: self.fps = int(self.cap.get(cv2.CAP_PROP_FPS))
FpsOf(src) == Trunc(src.n, src.d)

\* VideoProcessor.load_video, lines 26-33, on a source that opens
R_LoadVideo ==
    /\ \E src \in RateSources :
          /\ rate_source' = src
          /\ fps' = FpsOf(src)
    /\ mux' = NoMux
    /\ UNCHANGED notMux

\* process_video, lines 162-173: ffmpeg.input(frame_pattern, framerate=
\* self.fps), one ffmpeg.output over that stream with acodec='copy', run
R_Mux ==
    /\ rate_source # NoPath
    /\ mux' = [inputs |-> <<"temp_frames/frame_%06d.jpg">>,
               framerate |-> fps,
               vcodec |-> "libx264",
               acodec |-> "copy",
               of |-> rate_source]
    /\ UNCHANGED <<rate_source, fps>>
    /\ UNCHANGED notMux

\* ============================== VideoProcessor.process_frame, on one frame

\* no call yet
NoShot == [none |-> TRUE]

\* frames by width and height, and None (NoRect)
FrameShapes == [w : 1..MaxFrameW, h : 1..MaxFrameH]

\* regions as set_watermark_region takes them: any four integers, x and y
\* from left of the frame to right of it
ShotRegions ==
    [x : (0 - MaxFrameW)..(MaxFrameW + 1), y : (0 - MaxFrameH)..(MaxFrameH + 1),
     w : 0..MaxFrameW, h : 0..MaxFrameH]

\* the indices a[i:j] selects in an axis of length n (Python slice rules: a
\* negative bound counts from the end, then both are clipped to 0..n)
SliceBound(i, n) ==
    IF i < 0 THEN Max(i + n, 0) ELSE Min(i, n)
Slice(i, j, n) ==
    {k \in 0..(n - 1) : k >= SliceBound(i, n) /\ k < SliceBound(j, n)}

\* lines 90-92 (and image_processor.py lines 57-59): mask = zeros(shape[:2]);
\* x, y, w, h = region; mask[y:y+h, x:x+w] = 255. The pixels set to 255.
Mask(region, shape) ==
    {p \in [px : 0..(shape.w - 1), py : 0..(shape.h - 1)] :
        /\ p.px \in Slice(region.x, region.x + region.w, shape.w)
        /\ p.py \in Slice(region.y, region.y + region.h, shape.h)}

\* cv2.inpaint returns an image of the size of its source
Inpaint(shape, mask) == shape

\* VideoProcessor.process_frame, lines 84-104; raises says whether cv2.inpaint
\* raises. What it returns, as a shape.
ProcessFrameMut(frame, region, raises) ==
    IF frame = NoRect \/ region = NoRect THEN frame
    ELSE IF raises THEN NoRect
    ELSE [w |-> region.w, h |-> region.h]
ProcessFrame(frame, region, raises) ==
    IF frame = NoRect \/ region = NoRect THEN frame
    ELSE IF raises THEN frame
    ELSE Inpaint(frame, Mask(region, frame))

InitShot == shot = NoShot

\* one call of process_frame; a call leaves nothing for the next one, so
\* one call per behaviour covers them all
F_ProcessFrame ==
    /\ shot = NoShot
    /\ \E frame \in FrameShapes \cup {NoRect},
          region \in ShotRegions \cup {NoRect},
          raises \in BOOLEAN :
          shot' = [frame |-> frame,
                   region |-> region,
                   raised |-> frame # NoRect /\ region # NoRect /\ raises,
                   mask |-> IF frame = NoRect \/ region = NoRect THEN {}
                            ELSE Mask(region, frame),
                   out |-> ProcessFrame(frame, region, raises)]
    /\ UNCHANGED notFrame

\* =================================================== VideoProcessor, one run

\* line 123: the call is refused
NotReadyMut(vp, wr) == vp = NoPath /\ wr = NoRegion
NotReady(vp, wr) == vp = NoPath \/ wr = NoRegion

\* line 157: progress = (current_frame / total_frames) * 100, kept as the
\* exact fraction num/den (den > 0; den = 0 raises ZeroDivisionError instead)
ProgressMut(cur, tot) == [num |-> (tot - cur) * 100, den |-> tot]
Progress(cur, tot) == [num |-> cur * 100, den |-> tot]

Leq(p, q) == p.num * q.den <= q.num * p.den
Percent(n) == [num |-> n, den |-> 1]

\* line 110 of video_window.py, the sink ProcessThread.run hands over:
\*   lambda p: self.progress_updated.emit(p) if not self._is_canceled else False
\* (emit reports True)
SinkReturnMut(canceled) == TRUE
SinkReturn(canceled) == ~canceled

\* lines 158-159: where the loop goes after the callback
AfterCallbackMut(continue) == "read"
AfterCallback(continue) == IF continue THEN "read" ELSE "cleanup"

\* lines 144-145: where the loop goes after cap.read(), on ret
AfterReadMut(ret) == "mux"
AfterRead(ret) == IF ret THEN "frame" ELSE "mux"

InitRun ==
    /\ video_path = NoPath
    /\ cap = NoPath
    /\ loadResult = "none"
    /\ got = [op |-> "none", val |-> "none"]
    /\ watermark_region = NoRegion
    /\ pc = "idle"
    /\ opened = NoPath
    /\ total_frames = 0
    /\ current_frame = 0
    /\ dirExists = FALSE
    /\ files = {}
    /\ is_canceled = FALSE
    /\ pending = "none"
    /\ result = "none"
    /\ finishedSig = "none"
    /\ progressLog = <<>>
    /\ decoded = 0
    /\ stills = 0
    /\ madeDir = FALSE
    /\ muxDone = "no"
    /\ cause = "none"
    /\ stopAt = 0
    /\ cancelInLoop = FALSE
    /\ writesAfterCancel = 0
    /\ callsAfterCancel = 0
    /\ previous = [cause |-> "none", result |-> "none"]

Between == pc \in {"idle", "terminated"}
InLoop == pc \in {"read", "frame", "callback"}
Returned == pc \in {"returned", "terminated"}

diskVars == <<dirExists, files>>
procVars == <<video_path, cap, loadResult, got, watermark_region>>
localVars == <<opened, total_frames, current_frame>>
cancelVars == <<is_canceled, cancelInLoop>>
countVars == <<decoded, stills, writesAfterCancel, callsAfterCancel>>

\* VideoProcessor.load_video: video_path is set before the capture is made,
\* and cv2.VideoCapture does not raise on a file it cannot open
LoadVideo ==
    /\ Between
    /\ \E s \in Sources :
          /\ video_path' = s
          /\ cap' = s
    /\ loadResult' = "True"
    /\ UNCHANGED <<got, watermark_region, pc, localVars, diskVars, cancelVars,
                   pending, result, finishedSig, progressLog, countVars,
                   madeDir, muxDone, cause, stopAt, previous>>
    /\ UNCHANGED notRun

\* VideoProcessor.set_watermark_region
SetWatermarkRegion ==
    /\ Between
    /\ watermark_region = NoRegion
    /\ watermark_region' = "region"
    /\ UNCHANGED <<video_path, cap, loadResult, got, pc, localVars, diskVars, cancelVars,
                   pending, result, finishedSig, progressLog, countVars,
                   madeDir, muxDone, cause, stopAt, previous>>
    /\ UNCHANGED notRun

\* lines 42-52: what get_frame(i) yields on the capture c
FrameAt(c, i) ==
    IF c = NoPath THEN "None"
    ELSE IF c.openable /\ i < c.frames THEN "frame" ELSE "None"

\* VideoProcessor.get_frame
GetFrame ==
    /\ Between
    /\ \E i \in 0..MaxFrames :
          got' = [op |-> "get_frame", val |-> FrameAt(cap, i)]
    /\ UNCHANGED <<video_path, cap, loadResult, watermark_region, pc,
                   localVars, diskVars, cancelVars, pending, result,
                   finishedSig, progressLog, countVars, madeDir, muxDone,
                   cause, stopAt, previous>>
    /\ UNCHANGED notRun

\* VideoProcessor.get_preview_frame: get_frame, then the frame scaled down
\* and turned to RGB; None stays None
GetPreviewFrame ==
    /\ Between
    /\ \E i \in 0..MaxFrames :
          got' = [op |-> "get_preview_frame", val |-> FrameAt(cap, i)]
    /\ UNCHANGED <<video_path, cap, loadResult, watermark_region, pc,
                   localVars, diskVars, cancelVars, pending, result,
                   finishedSig, progressLog, countVars, madeDir, muxDone,
                   cause, stopAt, previous>>
    /\ UNCHANGED notRun

\* ProcessThread.__init__ and start(): a fresh thread object, a fresh call
StartThread ==
    /\ Between
    /\ pc' = "entry"
    /\ is_canceled' = FALSE
    /\ cancelInLoop' = FALSE
    /\ opened' = NoPath
    /\ total_frames' = 0
    /\ current_frame' = 0
    /\ pending' = "none"
    /\ result' = "none"
    /\ finishedSig' = "none"
    /\ progressLog' = <<>>
    /\ decoded' = 0
    /\ stills' = 0
    /\ writesAfterCancel' = 0
    /\ callsAfterCancel' = 0
    /\ madeDir' = FALSE
    /\ muxDone' = "no"
    /\ cause' = "none"
    /\ stopAt' = 0
    /\ previous' = [cause |-> cause, result |-> result]
    /\ got' = [op |-> "none", val |-> "none"]
    /\ UNCHANGED <<video_path, cap, loadResult, watermark_region, diskVars>>
    /\ UNCHANGED notRun

\* ProcessThread.cancel(), from the GUI thread, at any moment of the run
Cancel ==
    /\ pc \notin {"idle", "terminated"}
    /\ ~is_canceled
    /\ is_canceled' = TRUE
    /\ cancelInLoop' = InLoop
    /\ UNCHANGED <<procVars, pc, localVars, diskVars, pending, result,
                   finishedSig, progressLog, countVars, madeDir, muxDone,
                   cause, stopAt, previous>>
    /\ UNCHANGED notRun

\* the call ends: result handed to run(), outcome recorded
Return(r, c) ==
    /\ pc' = "returned"
    /\ result' = r
    /\ cause' = c
    /\ UNCHANGED previous

\* process_video, lines 123-124
PV_Guard ==
    /\ pc = "entry"
    /\ IF NotReady(video_path, watermark_region)
          THEN Return("False", "notready")
          ELSE /\ pc' = "mkdir"
               /\ UNCHANGED <<result, cause, previous>>
    /\ UNCHANGED <<procVars, localVars, diskVars, cancelVars, pending,
                   finishedSig, progressLog, countVars, madeDir, muxDone,
                   stopAt>>
    /\ UNCHANGED notRun

\* lines 126-129: os.makedirs(temp_dir, exist_ok=True). When it raises, the
\* handler of line 189 returns False and the finally of line 193 then reads
\* the local cap, which was never bound: the call ends in UnboundLocalError.
PV_MakeDirs ==
    /\ pc = "mkdir"
    /\ \/ /\ dirExists' = TRUE
          /\ madeDir' = TRUE
          /\ pc' = "open"
          /\ UNCHANGED <<result, cause, previous>>
       \/ /\ ~dirExists
          /\ Return("raised", "mkdir")
          /\ UNCHANGED <<dirExists, madeDir>>
    /\ UNCHANGED <<procVars, localVars, files, cancelVars, pending,
                   finishedSig, progressLog, countVars, muxDone, stopAt>>
    /\ UNCHANGED notRun

\* lines 131-138: open the capture, read the frame count
PV_Open ==
    /\ pc = "open"
    /\ opened' = video_path
    /\ IF video_path.openable
          THEN /\ total_frames' = video_path.meta
               /\ current_frame' = 0
               /\ pc' = "read"
               /\ UNCHANGED <<result, cause, previous>>
          ELSE /\ Return("False", "open")
               /\ UNCHANGED <<total_frames, current_frame>>
    /\ UNCHANGED <<procVars, diskVars, cancelVars, pending, finishedSig,
                   progressLog, countVars, madeDir, muxDone, stopAt>>
    /\ UNCHANGED notRun

\* lines 143-145: ret, frame = cap.read(); leave the loop on ret = False
PV_Read ==
    /\ pc = "read"
    /\ decoded' = IF decoded < opened.frames THEN decoded + 1 ELSE decoded
    /\ pc' = AfterRead(decoded < opened.frames)
    /\ UNCHANGED <<procVars, localVars, diskVars, cancelVars, pending,
                   result, finishedSig, progressLog, stills,
                   writesAfterCancel, callsAfterCancel, madeDir, muxDone,
                   cause, stopAt, previous>>
    /\ UNCHANGED notRun

\* lines 147-155: process_frame, imwrite of frame_<current_frame>.jpg,
\* current_frame += 1
PV_WriteFrame ==
    /\ pc = "frame"
    /\ files' = files \cup {current_frame}
    /\ current_frame' = current_frame + 1
    /\ stills' = stills + 1
    /\ writesAfterCancel' = writesAfterCancel + (IF is_canceled THEN 1 ELSE 0)
    /\ pc' = "callback"
    /\ UNCHANGED <<procVars, opened, total_frames, dirExists, cancelVars,
                   pending, result, finishedSig, progressLog, decoded,
                   callsAfterCancel, madeDir, muxDone, cause, stopAt,
                   previous>>
    /\ UNCHANGED notRun

\* lines 156-159: compute the progress, call the sink, return False on stop
PV_Progress ==
    /\ pc = "callback"
    /\ IF total_frames = 0
          THEN /\ pending' = "False"
               /\ cause' = "zerodiv"
               /\ pc' = "cleanup"
               /\ UNCHANGED <<progressLog, stopAt, callsAfterCancel>>
          ELSE /\ progressLog' =
                      Append(progressLog, Progress(current_frame, total_frames))
               /\ callsAfterCancel' =
                      callsAfterCancel + (IF is_canceled THEN 1 ELSE 0)
               /\ pc' = AfterCallback(SinkReturn(is_canceled))
               /\ IF SinkReturn(is_canceled)
                     THEN UNCHANGED <<pending, cause, stopAt>>
                     ELSE /\ pending' = "False"
                          /\ cause' = "cancel"
                          /\ stopAt' = IF stopAt = 0 THEN Len(progressLog')
                                                     ELSE stopAt
    /\ UNCHANGED <<procVars, localVars, diskVars, cancelVars, result,
                   finishedSig, decoded, stills, writesAfterCancel, madeDir,
                   muxDone, previous>>
    /\ UNCHANGED notRun

\* lines 161-175: ffmpeg over frame_%06d.jpg; it finds no input unless the
\* still number 0 is in the directory, and it can fail for other reasons
PV_Mux ==
    /\ pc = "mux"
    /\ \/ /\ 0 \in files
          /\ muxDone' = "ok"
          /\ pending' = "True"
          /\ cause' = "ok"
       \/ /\ muxDone' = "fail"
          /\ pending' = "False"
          /\ cause' = "mux"
    /\ pc' = "cleanup"
    /\ UNCHANGED <<procVars, localVars, diskVars, cancelVars, result,
                   finishedSig, progressLog, countVars, madeDir, stopAt,
                   previous>>
    /\ UNCHANGED notRun

\* lines 177-195: remove every file (a failed os.remove is passed over),
\* rmdir (fails when a file is left), then the value goes out
PV_Cleanup ==
    /\ pc = "cleanup"
    /\ \E kept \in SUBSET files :
          /\ files' = kept
          /\ dirExists' = (kept # {})
    /\ pc' = "returned"
    /\ result' = pending
    /\ UNCHANGED <<procVars, localVars, cancelVars, pending, finishedSig,
                   progressLog, countVars, madeDir, muxDone, cause, stopAt,
                   previous>>
    /\ UNCHANGED notRun

\* ProcessThread.run, lines 112-117: report unless canceled, then end
Run_Emit ==
    /\ pc = "returned"
    /\ finishedSig' = IF is_canceled THEN "none"
                      ELSE IF result = "True" THEN "True" ELSE "False"
    /\ pc' = "terminated"
    /\ UNCHANGED <<procVars, localVars, diskVars, cancelVars, pending,
                   result, progressLog, countVars, madeDir, muxDone, cause,
                   stopAt, previous>>
    /\ UNCHANGED notRun

\* ============================ the settings a run reads, and the GUI thread

\* no run in flight
NoJob == [none |-> TRUE]

\* regions a selection on the preview label can hand to set_watermark_region
SettingRegions == {Rect(0, 0, 1, 1), Rect(1, 1, 2, 2)}

InitSettings ==
    /\ settings = [region |-> NoRect, method |-> "telea",
                   radius |-> DefaultRadius]
    /\ job = NoJob
    /\ used = <<>>
    /\ signals = <<>>
    /\ dialog_shown = FALSE

\* video_window.py line 535: progress_dialog.setWindowModality(
\* Qt.WindowModal); while the dialog is on screen no mouse or key event
\* reaches a widget of the window, so none of its handlers runs
InputReaches == ~dialog_shown

\* video_window.py line 570:
\*   total_progress = (current_video * 100 + value) / total_videos
\* and line 571, int(total_progress); value is the fraction num/den
TotalProgress(current, total_videos, value) ==
    Trunc(current * 100 * value.den + value.num, total_videos * value.den)

\* lines 534, 536-537 and 571: setRange(0, 100), setAutoClose(True),
\* setAutoReset(True); setValue resets and hides the dialog when the value
\* is the maximum
HidesDialog(value) == value = 100

\* VideoWindow.update_method, lines 408-410 (currentTextChanged: the text
\* differs from the one before)
S_UpdateMethod ==
    /\ InputReaches
    /\ \E m \in Methods \ {settings.method} :
          settings' = [settings EXCEPT !.method = m]
    /\ UNCHANGED <<job, used, signals, dialog_shown>>
    /\ UNCHANGED notSettings

\* VideoWindow.update_radius, lines 412-414 (valueChanged)
S_UpdateRadius ==
    /\ InputReaches
    /\ \E r \in (1..MaxRadius) \ {settings.radius} :
          settings' = [settings EXCEPT !.radius = r]
    /\ UNCHANGED <<job, used, signals, dialog_shown>>
    /\ UNCHANGED notSettings

\* a selection drawn on the preview label: on_selection_changed, lines
\* 503-509, calls preview_removal, whose line 482 is set_watermark_region
S_Select ==
    /\ InputReaches
    /\ \E r \in SettingRegions :
          settings' = [settings EXCEPT !.region = r]
    /\ UNCHANGED <<job, used, signals, dialog_shown>>
    /\ UNCHANGED notSettings

\* VideoWindow.process_video, lines 519-619, on a list of one video that
\* loads: the guard of line 521, the dialog shown, the thread started
S_ProcessVideo ==
    /\ InputReaches
    /\ job = NoJob
    /\ settings.region # NoRect
    /\ \E m \in 1..MaxMeta, f \in 1..MaxFrames :
          job' = [meta |-> m, frames |-> f]
    /\ used' = <<>>
    /\ signals' = <<>>
    /\ dialog_shown' = TRUE
    /\ UNCHANGED settings
    /\ UNCHANGED notSettings

\* one turn of the frame loop on the worker thread, video_processor.py
\* lines 142-159: process_frame (lines 84-104) reads watermark_region,
\* method and inpaint_radius as they are at that moment, then the progress
\* value goes to the GUI thread as a queued signal
S_Frame ==
    /\ job # NoJob
    /\ Len(used) < job.frames
    /\ used' = Append(used, settings)
    /\ signals' = Append(signals, Progress(Len(used) + 1, job.meta))
    /\ UNCHANGED <<settings, job, dialog_shown>>
    /\ UNCHANGED notSettings

\* the closure update_progress, lines 569-577, run by processEvents of
\* line 622 for the oldest queued value
S_UpdateProgress ==
    /\ job # NoJob
    /\ signals # <<>>
    /\ dialog_shown' =
          (dialog_shown /\ ~HidesDialog(TotalProgress(0, 1, Head(signals))))
    /\ signals' = Tail(signals)
    /\ UNCHANGED <<settings, job, used>>
    /\ UNCHANGED notSettings

\* the source has no frame left: the thread ends, on_finished (lines
\* 579-611) sets the dialog to 100 and process_video returns
S_Finished ==
    /\ job # NoJob
    /\ Len(used) = job.frames
    /\ job' = NoJob
    /\ signals' = <<>>
    /\ dialog_shown' = FALSE
    /\ UNCHANGED <<settings, used>>
    /\ UNCHANGED notSettings

InitBatchIdle ==
    /\ nFiles = 0
    /\ mpc = "off"
    /\ idx = 0
    /\ wasCanceled = FALSE
    /\ b_video_path = 0
    /\ process_thread = 0
    /\ current_video = 0
    /\ buttonsEnabled = TRUE
    /\ thr = <<>>
    /\ queue = <<>>
    /\ loaded = {}
    /\ loadFailed = {}
    /\ raised = FALSE

Init ==
    /\ InitRun /\ InitBatchIdle /\ InitImage /\ InitLabel /\ InitPreviewLabel
    /\ InitContours /\ InitNames /\ InitRate /\ InitSettings /\ InitShot

Next ==
    \/ LoadVideo
    \/ SetWatermarkRegion
    \/ GetFrame
    \/ GetPreviewFrame
    \/ StartThread
    \/ Cancel
    \/ PV_Guard
    \/ PV_MakeDirs
    \/ PV_Open
    \/ PV_Read
    \/ PV_WriteFrame
    \/ PV_Progress
    \/ PV_Mux
    \/ PV_Cleanup
    \/ Run_Emit

Spec == Init /\ [][Next]_vars

\* ======================================== VideoWindow.process_video, a batch
\* The list entries are 1..nFiles; the ProcessThread made for entry t is
\* thread t. A region is selected (the process button is how the handler is
\* reached). progress_updated only repaints the dialog and is left out; the
\* deletion that deleteLater() schedules is not followed either.

Threads == 1..NumSources

NoThread ==
    [st |-> "none", canceled |-> FALSE, connected |-> FALSE,
     opened |-> 0, success |-> FALSE]

\* QThread.isRunning()
isRunning(t) == thr[t].st \in {"started", "pv", "ret", "exiting"}

\* lines 560-563: load_video returned False: count the entry, go on with
\* the next one
AfterLoadFailedMut(i) == [mpc |-> "finally", idx |-> i]
AfterLoadFailed(i) == [mpc |-> "for", idx |-> i + 1]

\* line 621: the condition of the waiting loop
KeepWaiting(pt) == pt # 0 /\ isRunning(pt)

InitWindow ==
    /\ nFiles \in 0..NumSources
    /\ mpc = "idle"
    /\ idx = 0
    /\ wasCanceled = FALSE
    /\ b_video_path = 0
    /\ process_thread = 0
    /\ current_video = 0
    /\ buttonsEnabled = TRUE
    /\ thr = [t \in Threads |-> NoThread]
    /\ queue = <<>>
    /\ loaded = {}
    /\ loadFailed = {}
    /\ raised = FALSE

guiVars == <<nFiles, wasCanceled, current_video, buttonsEnabled>>
ghostVars == <<loaded, loadFailed, raised>>

\* lines 519-542: refuse an empty list, disable the controls, open the dialog
B_Start ==
    /\ mpc = "idle"
    /\ IF nFiles = 0
          THEN /\ mpc' = "done"
               /\ UNCHANGED <<idx, buttonsEnabled>>
          ELSE /\ mpc' = "for"
               /\ idx' = 1
               /\ buttonsEnabled' = FALSE
    /\ UNCHANGED <<nFiles, wasCanceled, b_video_path, process_thread,
                   current_video, thr, queue, ghostVars>>
    /\ UNCHANGED notBatch

\* lines 545-618, one pass of the for loop up to the thread's start; line
\* 557, FileHandler.get_output_path, makes the output directory and can
\* raise, which the handler of line 637 takes to the finally clause
B_For ==
    /\ mpc = "for"
    /\ IF idx > nFiles \/ wasCanceled
          THEN /\ mpc' = "finally"
               /\ UNCHANGED <<idx, b_video_path, process_thread,
                              current_video, thr, ghostVars>>
          ELSE \/ /\ loaded' = loaded \cup {idx}
                  /\ b_video_path' = idx
                  /\ loadFailed' = loadFailed \cup {idx}
                  /\ current_video' = current_video + 1
                  /\ mpc' = AfterLoadFailed(idx).mpc
                  /\ idx' = AfterLoadFailed(idx).idx
                  /\ UNCHANGED <<process_thread, thr, raised>>
               \/ /\ loaded' = loaded \cup {idx}
                  /\ b_video_path' = idx
                  /\ process_thread' = idx
                  /\ thr' = [thr EXCEPT ![idx] =
                                [NoThread EXCEPT !.st = "started",
                                                 !.connected = TRUE]]
                  /\ mpc' = "while"
                  /\ UNCHANGED <<idx, current_video, loadFailed, raised>>
               \/ /\ raised' = TRUE
                  /\ mpc' = "finally"
                  /\ UNCHANGED <<idx, b_video_path, process_thread,
                                 current_video, thr, loaded, loadFailed>>
    /\ UNCHANGED <<nFiles, wasCanceled, buttonsEnabled, queue>>
    /\ UNCHANGED notBatch

\* line 621: while self.process_thread and self.process_thread.isRunning()
B_While ==
    /\ mpc = "while"
    /\ mpc' = IF KeepWaiting(process_thread) THEN "events" ELSE "afterWhile"
    /\ UNCHANGED <<idx, b_video_path, process_thread, thr, queue, guiVars,
                   ghostVars>>
    /\ UNCHANGED notBatch

\* the closure on_finished, lines 579-611, run by the GUI thread for the
\* finished signal at the head of its queue: inside processEvents() of line
\* 622, or in the event loop once the handler has returned
OnFinished ==
    /\ mpc \in {"events", "done"}
    /\ queue # <<>>
    /\ queue' = Tail(queue)
    /\ current_video' = current_video + 1
    /\ IF process_thread # 0
          THEN /\ thr' = [thr EXCEPT ![process_thread].connected = FALSE]
               /\ process_thread' = 0
          ELSE UNCHANGED <<thr, process_thread>>
    /\ buttonsEnabled' = IF current_video' = nFiles THEN TRUE
                                                    ELSE buttonsEnabled
    /\ UNCHANGED <<nFiles, mpc, idx, wasCanceled, b_video_path, ghostVars>>
    /\ UNCHANGED notBatch

\* the user presses Cancel on the modal dialog; the click is handled inside
\* processEvents()
UserCancel ==
    /\ mpc = "events"
    /\ ~wasCanceled
    /\ wasCanceled' = TRUE
    /\ UNCHANGED <<nFiles, mpc, idx, b_video_path, process_thread,
                   current_video, buttonsEnabled, thr, queue, ghostVars>>
    /\ UNCHANGED notBatch

\* lines 623-631: processEvents() is back; on cancel, cancel the thread and
\* wait for it, else sleep and look again
B_AfterEvents ==
    /\ mpc = "events"
    /\ queue = <<>>
    /\ IF wasCanceled
          THEN IF process_thread # 0
                  THEN /\ thr' = [thr EXCEPT ![process_thread].canceled = TRUE]
                       /\ mpc' = "cancelWait"
                  ELSE /\ mpc' = "afterWhile"
                       /\ UNCHANGED thr
          ELSE /\ mpc' = "while"
               /\ UNCHANGED thr
    /\ UNCHANGED <<idx, b_video_path, process_thread, queue, guiVars,
                   ghostVars>>
    /\ UNCHANGED notBatch

\* lines 626-630: wait() returns once the thread has ended
B_CancelWait ==
    /\ mpc = "cancelWait"
    /\ thr[process_thread].st = "terminated"
    /\ process_thread' = 0
    /\ mpc' = "afterWhile"
    /\ UNCHANGED <<idx, b_video_path, thr, queue, guiVars, ghostVars>>
    /\ UNCHANGED notBatch

\* lines 633-635 and the step of the for loop
B_AfterWhile ==
    /\ mpc = "afterWhile"
    /\ IF wasCanceled
          THEN /\ mpc' = "finally"
               /\ UNCHANGED idx
          ELSE /\ mpc' = "for"
               /\ idx' = idx + 1
    /\ UNCHANGED <<b_video_path, process_thread, thr, queue, guiVars,
                   ghostVars>>
    /\ UNCHANGED notBatch

\* line 647: if self.process_thread, the thread is waited for and the
\* reference dropped before the handler returns
AfterFinallyMut(pt) == "done"
AfterFinally(pt) == IF pt # 0 THEN "finalWait" ELSE "done"

\* lines 640-650: enable the controls; cancel a thread still referenced
B_Finally ==
    /\ mpc = "finally"
    /\ buttonsEnabled' = TRUE
    /\ mpc' = AfterFinally(process_thread)
    /\ thr' = IF process_thread # 0
                 THEN [thr EXCEPT ![process_thread].canceled = TRUE]
                 ELSE thr
    /\ UNCHANGED <<nFiles, idx, wasCanceled, b_video_path, process_thread,
                   current_video, queue, ghostVars>>
    /\ UNCHANGED notBatch

\* lines 650-652: wait() returns once the thread has ended
B_FinalWait ==
    /\ mpc = "finalWait"
    /\ thr[process_thread].st = "terminated"
    /\ process_thread' = 0
    /\ mpc' = "done"
    /\ UNCHANGED <<idx, b_video_path, thr, queue, guiVars, ghostVars>>
    /\ UNCHANGED notBatch

threadFrame ==
    <<nFiles, mpc, idx, wasCanceled, b_video_path, process_thread,
      current_video, buttonsEnabled, ghostVars>>

\* the thread enters process_video: lines 123-132 of video_processor.py read
\* self.video_path of the shared VideoProcessor and open it
T_Enter(t) ==
    /\ thr[t].st = "started"
    /\ thr' = [thr EXCEPT ![t].st = "pv", ![t].opened = b_video_path]
    /\ UNCHANGED <<threadFrame, queue>>
    /\ UNCHANGED notBatch

\* process_video returns to ProcessThread.run (line 108)
T_Return(t) ==
    /\ thr[t].st = "pv"
    /\ \E ok \in BOOLEAN :
          thr' = [thr EXCEPT ![t].st = "ret", ![t].success = ok]
    /\ UNCHANGED <<threadFrame, queue>>
    /\ UNCHANGED notBatch

\* ProcessThread.run, lines 112-113: emit finished unless canceled; the
\* signal reaches the GUI thread's queue while the closure is connected
T_Emit(t) ==
    /\ thr[t].st = "ret"
    /\ thr' = [thr EXCEPT ![t].st = "exiting"]
    /\ queue' = IF ~thr[t].canceled /\ thr[t].connected
                   THEN Append(queue, [from |-> t, success |-> thr[t].success])
                   ELSE queue
    /\ UNCHANGED threadFrame
    /\ UNCHANGED notBatch

\* run() is over, the thread ends: isRunning() turns False
T_Exit(t) ==
    /\ thr[t].st = "exiting"
    /\ thr' = [thr EXCEPT ![t].st = "terminated"]
    /\ UNCHANGED <<threadFrame, queue>>
    /\ UNCHANGED notBatch

NextBatch ==
    \/ B_Start
    \/ B_For
    \/ B_While
    \/ OnFinished
    \/ UserCancel
    \/ B_AfterEvents
    \/ B_CancelWait
    \/ B_AfterWhile
    \/ B_Finally
    \/ B_FinalWait
    \/ \E t \in Threads : T_Enter(t)
    \/ \E t \in Threads : T_Return(t)
    \/ \E t \in Threads : T_Emit(t)
    \/ \E t \in Threads : T_Exit(t)

InitBatch ==
    /\ InitRun /\ InitWindow /\ InitImage /\ InitLabel /\ InitPreviewLabel
    /\ InitContours /\ InitNames /\ InitRate /\ InitSettings /\ InitShot

SpecBatch == InitBatch /\ [][NextBatch]_vars

\* ====================================================== image specification

InitImageSpec ==
    /\ InitRun /\ InitBatchIdle /\ InitImageLoaded /\ InitLabel
    /\ InitPreviewLabel
    /\ InitContours /\ InitNames /\ InitRate /\ InitSettings /\ InitShot

NextImage ==
    \/ IP_SetRegion
    \/ IP_SetMethod
    \/ IP_SetRadius
    \/ IP_Remove
    \/ IP_Preview
    \/ IP_Detect
    \/ ProcessFiles

SpecImage == InitImageSpec /\ [][NextImage]_vars

\* ================================================ main window specification

InitMainWindowSpec ==
    /\ InitRun /\ InitBatchIdle /\ InitImage /\ InitLabel /\ InitPreviewLabel
    /\ InitContours /\ InitNames /\ InitRate /\ InitSettings /\ InitShot

NextMainWindow ==
    \/ MW_LoadImage
    \/ MW_DetectWatermark
    \/ ProcessFiles

SpecMainWindow == InitMainWindowSpec /\ [][NextMainWindow]_vars

\* ======================================================= label specification

InitMap ==
    /\ InitRun /\ InitBatchIdle /\ InitImage /\ InitLabel /\ InitPreviewLabel
    /\ InitContours /\ InitNames /\ InitRate /\ InitSettings /\ InitShot

NextMap ==
    \/ SetImage
    \/ MousePress
    \/ MouseMove
    \/ MouseRelease
    \/ PreviewRemovalClicked
    \/ DetectWatermark

SpecMap == InitMap /\ [][NextMap]_vars

\* ===================================================== preview specification

InitPreview ==
    /\ InitRun /\ InitBatchIdle /\ InitImage /\ InitLabel /\ InitPreviewLabel
    /\ InitContours /\ InitNames /\ InitRate /\ InitSettings /\ InitShot

NextPreview ==
    \/ V_LoadVideo
    \/ V_Drag
    \/ V_PreviewClicked
    \/ V_ProcessSource
    \/ V_Detect

SpecPreview == InitPreview /\ [][NextPreview]_vars

\* ==================================================== detector specification

InitDetect ==
    /\ InitRun /\ InitBatchIdle /\ InitImage /\ InitLabel /\ InitPreviewLabel
    /\ InitContours /\ InitNames /\ InitRate /\ InitSettings /\ InitShot

NextDetect ==
    \/ FindContour
    \/ NewImage
    \/ Detect

SpecDetect == InitDetect /\ [][NextDetect]_vars

\* ======================================================= names specification

InitNameSpec ==
    /\ InitRun /\ InitBatchIdle /\ InitImage /\ InitLabel /\ InitPreviewLabel
    /\ InitContours /\ InitNames /\ InitRate /\ InitSettings /\ InitShot

NextNames == NameFrames

SpecNames == InitNameSpec /\ [][NextNames]_vars

\* ========================================================= mux specification

InitMux ==
    /\ InitRun /\ InitBatchIdle /\ InitImage /\ InitLabel /\ InitPreviewLabel
    /\ InitContours /\ InitNames /\ InitRate /\ InitSettings /\ InitShot

NextMux ==
    \/ R_LoadVideo
    \/ R_Mux

SpecMux == InitMux /\ [][NextMux]_vars

\* ==================================================== settings specification

InitSettingsSpec ==
    /\ InitRun /\ InitBatchIdle /\ InitImage /\ InitLabel /\ InitPreviewLabel
    /\ InitContours /\ InitNames /\ InitRate /\ InitSettings /\ InitShot

NextSettings ==
    \/ S_UpdateMethod
    \/ S_UpdateRadius
    \/ S_Select
    \/ S_ProcessVideo
    \/ S_Frame
    \/ S_UpdateProgress
    \/ S_Finished

SpecSettings == InitSettingsSpec /\ [][NextSettings]_vars

\* ======================================================= frame specification

InitFrameSpec ==
    /\ InitRun /\ InitBatchIdle /\ InitImage /\ InitLabel /\ InitPreviewLabel
    /\ InitContours /\ InitNames /\ InitRate /\ InitSettings /\ InitShot

NextFrame == F_ProcessFrame

SpecFrame == InitFrameSpec /\ [][NextFrame]_vars

\* ============================================== claims on one run (Spec)

\* C1: after any call of process_video that created the scratch directory
\* (success, cancellation, open failure, mux failure), the scratch directory
\* no longer exists when the call returns.
C1_ScratchGoneOnReturn ==
    (Returned /\ madeDir) => ~dirExists

\* C2: if the sink returns stop on its k-th call, exactly k frames have been
\* decoded and written, none is decoded or written afterwards, and the call
\* reports failure.
C2_StopAtK ==
    stopAt # 0 =>
        /\ decoded = stopAt
        /\ stills = stopAt
        /\ current_frame = stopAt
        /\ muxDone = "no"
        /\ Returned => result = "False"

C2_Witness ==
    /\ Returned
    /\ stopAt = 1
    /\ opened.frames > 1
    /\ result = "False"

\* C3: process_video returns success only if all the frames the metadata
\* reports were decoded, processed and written and the mux step completed.
C3_SuccessMeansAllFrames ==
    (Returned /\ result = "True") =>
        /\ decoded = total_frames
        /\ stills = total_frames
        /\ muxDone = "ok"

\* C4: a call that ended by cancellation and a call that ended by mux
\* failure hand their caller different result values.
C4_CancelAndMuxFailureDiffer ==
    (Returned /\ {previous.cause, cause} = {"cancel", "mux"}) =>
        previous.result # result

\* C5: within one call the progress values handed to the sink never decrease.
C5_ProgressMonotone ==
    \A i \in 1..Len(progressLog) : \A j \in i..Len(progressLog) :
        Leq(progressLog[i], progressLog[j])

C5_Witness ==
    /\ Len(progressLog) >= 2
    /\ ~Leq(progressLog[2], progressLog[1])

\* C6: whenever process_video returns success, the last progress value the
\* sink received in that call is 100.
C6_SuccessEndsAt100 ==
    (Returned /\ result = "True") =>
        /\ progressLog # <<>>
        /\ Leq(progressLog[Len(progressLog)], Percent(100))
        /\ Leq(Percent(100), progressLog[Len(progressLog)])

\* C7: every progress value handed to the sink lies in [0, 100], also for a
\* source whose decodable frames differ from the reported frame count.
C7_ProgressInRange ==
    \A i \in 1..Len(progressLog) :
        /\ Leq(Percent(0), progressLog[i])
        /\ Leq(progressLog[i], Percent(100))

\* C8 as stated: once cancel() was called while process_video was in its
\* frame loop, at most one further frame is written and the call returns
\* failure.
C8_CancelInLoopFails ==
    cancelInLoop =>
        /\ writesAfterCancel <= 1
        /\ Returned => result = "False"

\* C8, amended: once cancel() was called in the frame loop at most one
\* further frame is written; the first callback after it returns stop and
\* the call then returns failure without muxing. A cancel that no callback
\* follows goes unseen.
C8_CancelSeenAtNextCallback ==
    cancelInLoop =>
        /\ writesAfterCancel <= 1
        /\ callsAfterCancel <= 1
        /\ callsAfterCancel = 1 =>
              /\ stopAt = Len(progressLog)
              /\ muxDone = "no"
              /\ Returned => result = "False"

C8_Witness ==
    /\ cancelInLoop
    /\ writesAfterCancel = 1
    /\ callsAfterCancel = 1
    /\ Returned
    /\ result = "False"
    /\ decoded < opened.frames

C13_LoadedOnlyIfOpened ==
    /\ loadResult = "True" => cap.openable
    /\ pc \notin {"idle", "entry"} /\ cause # "notready" => video_path.openable

\* C26: when the mux step is invoked, the scratch directory holds exactly the
\* stills this run wrote, numbers 0..k-1 for k decoded frames, and no file
\* of an earlier run.
C26_ScratchFreshAtMux ==
    pc = "mux" =>
        /\ stills = decoded
        /\ files = 0..(stills - 1)

\* C27: process_video ends every call by returning True or False, never by
\* an exception; when the scratch directory cannot be made it returns False
\* and decodes no frame.
C27_FailuresAreReturned ==
    Returned =>
        /\ result \in {"True", "False"}
        /\ cause = "mkdir" => result = "False" /\ decoded = 0

C9_OneRunAtATime ==
    Cardinality({t \in Threads : thr[t].st = "pv"}) <= 1

C36_ControlsBackOnReturn ==
    mpc = "done" => buttonsEnabled /\ process_thread = 0

\* the handler returned through its exception handler while it still held
\* the thread of the first source, which had ended
C36_Witness ==
    /\ mpc = "done"
    /\ raised
    /\ thr[1].st = "terminated"
    /\ process_thread = 0
    /\ buttonsEnabled
    /\ queue # <<>>

\* ============================================ claims on images (SpecImage)

\* the entries of a selection that FileHandler.is_image accepts
ImagesOf(sel) == {i \in 1..Len(sel) : sel[i].image}

\* the entries whose removal runs to its end: decoded and saved
CompletedOf(sel) ==
    {i \in ImagesOf(sel) : sel[i].readable /\ sel[i].writable}

C14_NoRegionRefusedBeforeRead ==
    /\ last.op \in {"remove_watermark", "preview_removal"}
    /\ last.region = NoRegion
    => /\ last.res.outcome = "ValueError: no region"
       /\ ~last.res.read
       /\ ~last.res.wrote

\* remove_watermark without a region on a file that could not be decoded
C14_Witness ==
    /\ last.op = "remove_watermark"
    /\ last.region = NoRegion
    /\ ~last.file.readable
    /\ last.res.outcome = "ValueError: no region"

\* C15: on a source that cannot be decoded, remove_watermark and
\* preview_removal (region set) both end with the read-failure error and
\* write nothing.
C15_UndecodableIsReadError ==
    /\ last.op \in {"remove_watermark", "preview_removal"}
    /\ last.region # NoRegion
    /\ ~last.file.readable
    => /\ last.res.outcome = "ValueError: cannot read"
       /\ ~last.res.wrote

\* C16: whenever remove_watermark or preview_removal reaches cv2.inpaint, it
\* hands it the configured algorithm and the configured radius.
C16_ConfiguredReconstruction ==
    /\ last.op \in {"remove_watermark", "preview_removal"}
    /\ last.res.algo # "none"
    => /\ last.res.algo = last.method
       /\ last.res.radius = last.config_radius

\* C20: auto_detect_watermark never raises: it returns a region or None.
C20_DetectNeverRaises ==
    last.op = "auto_detect_watermark" => last.res.outcome \in {"region", "None"}

\* ========================================= claims on the label (SpecMap)

InBounds(r, size) ==
    /\ 0 <= r.x /\ 0 <= r.y
    /\ r.w >= 0 /\ r.h >= 0
    /\ r.x + r.w <= size.w
    /\ r.y + r.h <= size.h

\* C17: whatever the selection, a rectangle returned by get_scaled_rect lies
\* inside the image: 0 <= x, 0 <= y, width >= 0, height >= 0,
\* x + width <= image width, y + height <= image height.
C17_ScaledRectInBounds ==
    scaled_rect # NoRect => InBounds(scaled_rect, original_size)

\* a selection that starts left of and above the label, mapped to a region
\* that is not empty
C17_Witness ==
    /\ scaled_rect # NoRect
    /\ selection # NoRect
    /\ selection.x < 0 /\ selection.y < 0
    /\ scaled_rect.w > 0 /\ scaled_rect.h > 0

Near(a, b) == a - b <= 1 /\ b - a <= 1

\* C19: a region mapped to the label by detect_watermark while the label
\* shows the scaled image, and mapped back by get_scaled_rect, comes back
\* with x, y, width and height each within 1 pixel of where they started.
C19_RoundTripWithinOne ==
    /\ detected # NoRect
    /\ scaled_rect # NoRect
    /\ detected.pixmap = NewSize(original_size)
    => /\ Near(scaled_rect.x, detected.r.x)
       /\ Near(scaled_rect.y, detected.r.y)
       /\ Near(scaled_rect.w, detected.r.w)
       /\ Near(scaled_rect.h, detected.r.h)

\* C34: for an unchanged selection, get_scaled_rect returns the same region
\* after the preview has been displayed as it returned for the preview
C34_SameRegionAfterPreview ==
    /\ Truthy(selection)
    /\ Truthy(scaled_rect)
    /\ start_pos = NoPoint
    => GetScaledRect(selection, pixmap, scale_factor, original_size)
          = scaled_rect

\* ================================== claims on the video preview (SpecPreview)

\* C18: every region process_frame applies lies inside the frame it is
\* applied to: 0 <= x, 0 <= y, x + width <= frame width,
\* y + height <= frame height.
C18_AppliedRegionInFrame ==
    applied # NoRect =>
        /\ 0 <= applied.region.x
        /\ 0 <= applied.region.y
        /\ applied.region.x + applied.region.w <= applied.frame.w
        /\ applied.region.y + applied.region.h <= applied.frame.h

\* C21: a detection request on a readable frame of a loaded source ends
\* with a detected region or with "no region detected", never with the
\* detection-failed outcome.
C21_DetectionNeverFails ==
    detection.readable => detection.status \in {"none", "detected", "no region"}

\* ======================================== claims on the detector (SpecDetect)

\* the contour the returned region was derived from
Winner == auto_region.of[auto_region.winner]

\* enclosed area strictly between 0.001 and 0.2 of the frame area
InOpenInterval(c) ==
    /\ 1000 * c.area2 > 2 * (DetW * DetH)
    /\ 5 * c.area2 < 2 * (DetW * DetH)

Candidates == {i \in 1..Len(auto_region.of) : InOpenInterval(auto_region.of[i])}

\* C22: the returned region is the winner's bounding rectangle grown by 5
\* pixels on each side and cut to the frame: left = max(0, bx - 5),
\* top = max(0, by - 5), right = min(W, bx + bw + 5),
\* bottom = min(H, by + bh + 5).
C22_RegionIsPaddedWinner ==
    auto_region.status = "region" =>
        /\ auto_region.region.x = Max(0, Winner.x - 5)
        /\ auto_region.region.y = Max(0, Winner.y - 5)
        /\ auto_region.region.x + auto_region.region.w
              = Min(DetW, Winner.x + Winner.w + 5)
        /\ auto_region.region.y + auto_region.region.h
              = Min(DetH, Winner.y + Winner.h + 5)

\* C23: a returned region comes from a contour whose area lies strictly
\* between 0.001 and 0.2 of the frame area, and when no contour has such an
\* area the result is None.
C23_WinnerAreaInBounds ==
    /\ auto_region.status = "region" => InOpenInterval(Winner)
    /\ auto_region.status # "not called" /\ Candidates = {}
          => auto_region.status = "None"

\* two contours, the first too large and the second kept and returned
C23_Witness ==
    /\ auto_region.status = "region"
    /\ Len(auto_region.of) = 2
    /\ 5 * auto_region.of[1].area2 >= 2 * (DetW * DetH)
    /\ auto_region.winner = 2

\* score a >= score b, both fractions with positive denominators
AtLeast(a, b) == a.n * b.d >= b.n * a.d

\* C24: the chosen contour passed the area filter and no contour that passed
\* it has a higher score solidity * (1 - |0.5 - centerY / height|); a single
\* contour that passed is the one chosen.
C24_WinnerHasTopScore ==
    auto_region.status = "region" =>
        /\ auto_region.winner \in Candidates
        /\ \A i \in Candidates :
              AtLeast(Score(Winner), Score(auto_region.of[i]))

\* two contours passed, the first scores higher and is the one chosen
C24_Witness ==
    /\ auto_region.status = "region"
    /\ Candidates = {1, 2}
    /\ auto_region.winner = 1
    /\ ~AtLeast(Score(auto_region.of[2]), Score(auto_region.of[1]))

\* ===================================== claims on the file names (SpecNames)

\* C25: of two frames of a run, the file name of the earlier one sorts
\* strictly before the file name of the later one.
C25_NamesSortLikeFrames ==
    named # NotNamed => LexLess(named.name_i, named.name_j)

\* ================================== claims on the mux invocation (SpecMux)

\* C28: the frame rate handed to ffmpeg is the frame rate of the source
\* being processed: framerate = n/d.
C28_MuxAtSourceRate ==
    mux # NoMux => mux.framerate * mux.of.d = mux.of.n

\* C29: the source video is one of the inputs of the ffmpeg invocation, so
\* that acodec='copy' has the source's audio stream to copy.
C29_MuxTakesSourceAudio ==
    mux # NoMux =>
        /\ \E k \in 1..Len(mux.inputs) : mux.inputs[k] = mux.of.name
        /\ mux.acodec = "copy"

\* ================================== claims on the settings (SpecSettings)

\* C30: all frames of one video run are reconstructed with the same region,
\* algorithm and radius, whatever the event loop handles during the run
C30_OneConfigurationPerRun ==
    \A i, j \in 1..Len(used) : used[i] = used[j]

\* ================================ claims on process_frame (SpecFrame)

\* C31: process_frame returns a frame of the dimensions of its input, on the
\* normal path, with no region set, and when cv2.inpaint raises
C31_SameDimensions ==
    shot # NoShot => shot.out = shot.frame

\* the fallback was taken on a frame: cv2.inpaint raised
C31_Witness ==
    /\ shot # NoShot
    /\ shot.raised
    /\ shot.out = shot.frame
    /\ shot.frame # NoRect

\* C32: the mask is non-zero only at pixels (px, py) with x <= px < x+w and
\* y <= py < y+h, for every integer region
C32_MaskInsideRegion ==
    (shot # NoShot /\ shot.frame # NoRect /\ shot.region # NoRect) =>
        \A p \in shot.mask :
            /\ shot.region.x <= p.px /\ p.px < shot.region.x + shot.region.w
            /\ shot.region.y <= p.py /\ p.py < shot.region.y + shot.region.h

\* ================================ claims on the main window (SpecMainWindow)

\* C35: in image mode, with an image loaded and no handler running, the
\* preview and process buttons are enabled, also after a detection that
\* found no region or ended in an error
C35_ButtonsEnabledWhenLoaded ==
    current_image # NoFile =>
        image_buttons.preview /\ image_buttons.process

====
